---- MODULE Spec2Model ----
(***************************************************************************)
(* Model of the JWKS cache of src/src/cache/mod.rs: the cache state        *)
(* machine (JWKSCache) behind a spin::RwLock, the readers calling          *)
(* CachedJWKS::get on several threads, the detached background refresh     *)
(* tasks of update_in_background, and the retry/deadline wrapper           *)
(* CachedJWKS::request.                                                    *)
(*                                                                         *)
(* Every reader of the model is one call of get.  A step of the model is   *)
(* one access to the shared lock or to a Notify, or one completed          *)
(* policy-wrapped fetch; the code between two such accesses is local to    *)
(* the calling thread and is folded into the step before it.               *)
(***************************************************************************)
EXTENDS Integers, Sequences, FiniteSets, TLC

\* ---------------------------------------------------------------- bounds
\* Number of get calls (each on its own thread).
NReaders == 3
\* Last instant of the wall clock (SystemTime::now()).
MaxClock == 3

\* Largest TimeoutSpec.retries the request harness draws.
MaxRetries == 2
\* Largest retry_after, backoff and deadline the request harness draws; a
\* call of the source lasts at most one unit longer.
MaxTime == 2

Readers == 1..NReaders

\* ------------------------------------------------- configuration of Spec
\* CachedJWKS.update_period and CachedJWKS.timeout_spec, in clock units, in
\* the proportions of test_background_refresh_and_expire (retries 0,
\* retry_after = deadline, update_period > deadline).
update_period == 2
timeout_spec == [retries |-> 0, retry_after |-> 1, backoff |-> 0, deadline |-> 1]
\* The lifetime the response's cache policy grants (time_to_live).
time_to_live == 3

\* get_expiration: now + time_to_live(now).
get_expiration(now) == now + time_to_live

\* ------------------------------------------------------------- JWKSCache
Empty == [tag |-> "Empty", notify |-> 0, expires |-> 0, jwks |-> 0]
Fetching(notifier) == [tag |-> "Fetching", notify |-> notifier, expires |-> 0, jwks |-> 0]
Refreshing(expires, jwks) == [tag |-> "Refreshing", notify |-> 0, expires |-> expires, jwks |-> jwks]
Fetched(expires, jwks) == [tag |-> "Fetched", notify |-> 0, expires |-> expires, jwks |-> jwks]

\* ---------------------------------------------------------- RequestError
\* Result<(JwkSet, SystemTime), RequestError>; "None" is no result yet.
NoResult == [kind |-> "None", jwks |-> 0, expires |-> 0]
Ok(jwks, expires) == [kind |-> "Ok", jwks |-> jwks, expires |-> expires]
Err(kind) == [kind |-> kind, jwks |-> 0, expires |-> 0]
IsErr(res) == res.kind \in {"Client", "Timeout"}

\* ------------------------------------------- retry / deadline wrapper
\* One call of the source: it takes dur clock units and then succeeds or
\* fails with the client's error.
\* get_jwks_within_deadline: tokio::time::timeout(deadline, get_jwks).
\* Timeout::poll polls the wrapped future before the timer, so a call that
\* is ready at the very instant of the deadline still wins.
get_jwks_within_deadline(call, deadline) ==
    IF call.dur <= deadline
    THEN [kind |-> IF call.ok THEN "Ok" ELSE "Client", took |-> call.dur]
    ELSE [kind |-> "Timeout", took |-> deadline]

\* The attempt loop giving up one retry early.
RECURSIVE perform_retry_short(_, _, _, _, _)
perform_retry_short(source, timeout, retries, t, starts) ==
    LET res == get_jwks_within_deadline(source[retries + 1], timeout.retry_after)
        end == t + res.took
        invoked == Append(starts, t)
    IN  IF res.kind = "Ok"
        THEN [kind |-> "Ok", elapsed |-> end, starts |-> invoked, from |-> retries + 1]
        ELSE IF retries >= timeout.retries - 1
        THEN [kind |-> res.kind, elapsed |-> end, starts |-> invoked, from |-> retries + 1]
        ELSE perform_retry_short(source, timeout, retries + 1, end + timeout.backoff, invoked)

\* The attempt loop keeping the error of its first attempt and handing that
\* one back when the retries are used up.
RECURSIVE perform_first_error(_, _, _, _, _)
perform_first_error(source, timeout, retries, t, starts) ==
    LET res == get_jwks_within_deadline(source[retries + 1], timeout.retry_after)
        first == get_jwks_within_deadline(source[1], timeout.retry_after)
        end == t + res.took
        invoked == Append(starts, t)
    IN  IF res.kind = "Ok"
        THEN [kind |-> "Ok", elapsed |-> end, starts |-> invoked, from |-> retries + 1]
        ELSE IF retries = timeout.retries
        THEN [kind |-> first.kind, elapsed |-> end, starts |-> invoked, from |-> 1]
        ELSE perform_first_error(source, timeout, retries + 1, end + timeout.backoff, invoked)

\* The `perform` future of request, run to its end without the outer
\* timeout: the attempt loop.  source[i] is the i-th call of the source,
\* retries the loop's counter, t the time since request was called, starts
\* the instants at which the source has been invoked so far.
RECURSIVE perform(_, _, _, _, _)
perform(source, timeout, retries, t, starts) ==
    LET res == get_jwks_within_deadline(source[retries + 1], timeout.retry_after)
        end == t + res.took
        invoked == Append(starts, t)
    IN  IF res.kind = "Ok"
        THEN [kind |-> "Ok", elapsed |-> end, starts |-> invoked, from |-> retries + 1]
        ELSE IF retries = timeout.retries
        THEN [kind |-> res.kind, elapsed |-> end, starts |-> invoked, from |-> retries + 1]
        ELSE perform(source, timeout, retries + 1, end + timeout.backoff, invoked)

\* How many of the invocations of a run of perform have begun by instant t.
InvokedBy(starts, t) == Cardinality({i \in 1..Len(starts) : starts[i] <= t})

\* request without its outer timeout (a plausible slip: the loop alone).
request_no_deadline(source, timeout) ==
    LET p == perform(source, timeout, 0, 0, <<>>)
    IN  [kind |-> p.kind, elapsed |-> p.elapsed, invoked |-> Len(p.starts),
         from |-> p.from]

\* request: tokio::time::timeout(timeout.deadline, perform).  The loop's
\* outcome stands when the loop ends by the deadline; otherwise the call is
\* a Timeout at the deadline, and the source has been invoked as often as
\* the loop got to by then.
request(source, timeout) ==
    LET p == perform(source, timeout, 0, 0, <<>>)
    IN  IF p.elapsed <= timeout.deadline
        THEN [kind |-> p.kind, elapsed |-> p.elapsed, invoked |-> Len(p.starts),
              from |-> p.from]
        ELSE [kind |-> "Timeout", elapsed |-> timeout.deadline,
              invoked |-> InvokedBy(p.starts, timeout.deadline), from |-> 0]

\* The behaviours of the source that the cache model draws from: per call,
\* an immediate answer, an immediate client error, or a call that outlasts
\* retry_after.
SourceCalls == {[dur |-> 0, ok |-> TRUE], [dur |-> 0, ok |-> FALSE], [dur |-> 2, ok |-> TRUE]}
Sources == [1..(timeout_spec.retries + 1) -> SourceCalls]

VARIABLES
    clock,          \* SystemTime::now()
    cache_state,    \* CachedJWKS.cache_state: the JWKSCache behind the lock
    lock,           \* the spin::RwLock: writer bit and reader count
    pc,             \* where each get call stands
    now,            \* get: let now
    cached_state,   \* get: let cached_state (the snapshot)
    result,         \* update_notify: let result (of request)
    ret,            \* what get returned
    bg,             \* the task update_in_background spawned for each get
    fetched,        \* how often the source has been invoked (the mock's counter)
    calledOnEmpty,  \* history: every get so far was called on an Empty cache
    rq              \* the harness of RequestSpec and of ConstructSpec

vars == <<clock, cache_state, lock, pc, now, cached_state, result, ret, bg,
          fetched, calledOnEmpty, rq>>

NoTask == [pc |-> "none", result |-> NoResult]
RqOff == [pc |-> "off"]

Init ==
    /\ clock = 0
    /\ cache_state = Empty
    /\ lock = [writer |-> FALSE, readers |-> 0]
    /\ pc = [r \in Readers |-> "idle"]
    /\ now = [r \in Readers |-> 0]
    /\ cached_state = [r \in Readers |-> Empty]
    /\ result = [r \in Readers |-> NoResult]
    /\ ret = [r \in Readers |-> NoResult]
    /\ bg = [r \in Readers |-> NoTask]
    /\ fetched = 0
    /\ calledOnEmpty = TRUE
    /\ rq = RqOff


\* ------------------------------------------------------- spin::RwLock
\* try_write succeeds only on a lock nobody holds; write() spins for that.
LockFree == ~lock.writer /\ lock.readers = 0
\* read() spins while a writer holds the lock.
CanRead == ~lock.writer
WriteLocked == [writer |-> TRUE, readers |-> lock.readers]
\* The write guard outliving its block: the lock stays as it is.
WriteGuardKept == [writer |-> lock.writer, readers |-> lock.readers]
WriteUnlocked == [writer |-> FALSE, readers |-> lock.readers]

\* ------------------------------------------------------- tokio::Notify
\* Notify::notify_one in the place of notify_waiters: one waiter is woken.
notify_one(notifier, p) ==
    LET waiting == {r \in Readers : /\ p[r] = "waiting"
                                    /\ cached_state[r].tag = "Fetching"
                                    /\ cached_state[r].notify = notifier}
    IN  [r \in Readers |->
            IF r \in waiting /\ \A q \in waiting : r <= q THEN "read" ELSE p[r]]

\* Notify::notify_waiters wakes every Notified future of this Notify that
\* exists at the call (pc "waiting"); one created later is not woken by it.
notify_waiters(notifier, p) ==
    [r \in Readers |->
        IF p[r] = "waiting" /\ cached_state[r].tag = "Fetching"
                            /\ cached_state[r].notify = notifier
        THEN "read" ELSE p[r]]

\* ------------------------------------------------------------------ get
\* let now = SystemTime::now().  The get calls are numbered in the order in
\* which they read the clock: call r + 1 is the one that starts after call r.
get_now(r) ==
    /\ pc[r] = "idle"
    /\ \A q \in Readers : q < r => pc[q] # "idle"
    /\ now' = [now EXCEPT ![r] = clock]
    /\ pc' = [pc EXCEPT ![r] = "read"]
    /\ calledOnEmpty' = (calledOnEmpty /\ cache_state.tag = "Empty")
    /\ UNCHANGED <<clock, cache_state, lock, cached_state, result, ret, bg, fetched, rq>>

\* self.cache_state.read(): the read guard is taken
read_lock(r) ==
    /\ pc[r] = "read"
    /\ CanRead
    /\ lock' = [lock EXCEPT !.readers = @ + 1]
    /\ pc' = [pc EXCEPT ![r] = "clone"]
    /\ UNCHANGED <<clock, cache_state, now, cached_state, result, ret, bg, fetched,
                   calledOnEmpty, rq>>

\* The Fetched arm starts the refresh one time unit before the window opens.
match_cached_state_early(state, t) ==
    CASE state.tag = "Empty" -> "update_notify"
      [] state.tag = "Fetching" -> "notified"
      [] state.tag = "Refreshing" -> "done"
      [] state.tag = "Fetched" ->
            IF t >= state.expires THEN "update_notify"
            ELSE IF t + update_period + 1 >= state.expires THEN "update_in_background"
            ELSE "done"

\* The arm of `match cached_state` a snapshot leads to: the next access of
\* the shared state, or "done" when get returns from the snapshot.
match_cached_state(state, t) ==
    CASE state.tag = "Empty" -> "update_notify"
      [] state.tag = "Fetching" -> "notified"
      [] state.tag = "Refreshing" -> "done"
      [] state.tag = "Fetched" ->
            IF t >= state.expires THEN "update_notify"
            ELSE IF t + update_period >= state.expires THEN "update_in_background"
            ELSE "done"

\* .clone() under the read guard, the guard dropped, and the match; the
\* Refreshing arm and the pure hit of the Fetched arm return the snapshot.
read_clone(r) ==
    /\ pc[r] = "clone"
    /\ lock' = [lock EXCEPT !.readers = @ - 1]
    /\ cached_state' = [cached_state EXCEPT ![r] = cache_state]
    /\ LET next == match_cached_state(cache_state, now[r])
       IN  /\ pc' = [pc EXCEPT ![r] = next]
           /\ ret' = [ret EXCEPT ![r] = IF next = "done"
                                        THEN Ok(cache_state.jwks, cache_state.expires)
                                        ELSE @]
    /\ UNCHANGED <<clock, cache_state, now, result, bg, fetched, calledOnEmpty, rq>>

\* notifier.notified(): the Notified future of the snapshot's Notify exists
\* from here on
notified(r) ==
    /\ pc[r] = "notified"
    /\ pc' = [pc EXCEPT ![r] = "waiting"]
    /\ UNCHANGED <<clock, cache_state, lock, now, cached_state, result, ret, bg, fetched,
                   calledOnEmpty, rq>>

\* -------------------------------------------------------- update_notify
\* self.cache_state.try_write() is Some
try_write_some(r) ==
    /\ pc[r] = "update_notify"
    /\ LockFree
    /\ lock' = WriteLocked
    /\ pc' = [pc EXCEPT ![r] = "set_fetching"]
    /\ UNCHANGED <<clock, cache_state, now, cached_state, result, ret, bg, fetched,
                   calledOnEmpty, rq>>

\* self.cache_state.try_write() is None: return Ok(None), get continues
try_write_none(r) ==
    /\ pc[r] = "update_notify"
    /\ ~LockFree
    /\ pc' = [pc EXCEPT ![r] = "read"]
    /\ UNCHANGED <<clock, cache_state, lock, now, cached_state, result, ret, bg, fetched,
                   calledOnEmpty, rq>>

\* *cached_state = JWKSCache::Fetching(notifier.clone()); the guard dropped.
\* The Notify made by the get call r is named r.
set_fetching(r) ==
    /\ pc[r] = "set_fetching"
    /\ cache_state' = Fetching(r)
    /\ lock' = WriteUnlocked
    /\ pc' = [pc EXCEPT ![r] = "request"]
    /\ UNCHANGED <<clock, now, cached_state, result, ret, bg, fetched, calledOnEmpty, rq>>

\* What a fetch that began at `t` hands back for an outcome of request; the
\* key set of the n-th invocation of the source is named n.
fetch_result(out, t, n) ==
    IF out.kind = "Ok" THEN Ok(n, get_expiration(t)) ELSE Err(out.kind)

\* Self::request(...).await of update_notify
fg_request(r) ==
    /\ pc[r] = "request"
    /\ \E source \in Sources :
          LET out == request(source, timeout_spec)
          IN  /\ fetched' = fetched + out.invoked
              /\ result' = [result EXCEPT ![r] = fetch_result(out, now[r], fetched')]
    /\ pc' = [pc EXCEPT ![r] = "write"]
    /\ UNCHANGED <<clock, cache_state, lock, now, cached_state, ret, bg, calledOnEmpty, rq>>

\* self.cache_state.write() of update_notify
fg_write_lock(r) ==
    /\ pc[r] = "write"
    /\ LockFree
    /\ lock' = WriteLocked
    /\ pc' = [pc EXCEPT ![r] = "store"]
    /\ UNCHANGED <<clock, cache_state, now, cached_state, result, ret, bg, fetched,
                   calledOnEmpty, rq>>

\* The store leaving the state as it is (Fetching) when the fetch has failed.
fg_new_state_stale(res) ==
    IF res.kind = "Ok" THEN Fetched(res.expires, res.jwks) ELSE cache_state

\* The state update_notify stores for the result of its fetch.
fg_new_state(res) ==
    IF res.kind = "Ok" THEN Fetched(res.expires, res.jwks) ELSE Empty

\* The second write section left out: the result is handed on to the notify
\* with the state never written.
fg_store_skip(r) ==
    /\ pc[r] = "store"
    /\ lock' = WriteUnlocked
    /\ pc' = [pc EXCEPT ![r] = "notify"]
    /\ UNCHANGED <<clock, cache_state, now, cached_state, result, ret, bg, fetched,
                   calledOnEmpty, rq>>

\* match result { Ok => Fetched, Err => Empty }; the guard dropped
fg_store(r) ==
    /\ pc[r] = "store"
    /\ cache_state' = fg_new_state(result[r])
    /\ lock' = WriteUnlocked
    /\ pc' = [pc EXCEPT ![r] = "notify"]
    /\ UNCHANGED <<clock, now, cached_state, result, ret, bg, fetched, calledOnEmpty, rq>>

\* notifier.notify_waiters(); result is returned, and get returns it
fg_notify(r) ==
    /\ pc[r] = "notify"
    /\ pc' = [notify_waiters(r, pc) EXCEPT ![r] = "done"]
    /\ ret' = [ret EXCEPT ![r] = result[r]]
    /\ UNCHANGED <<clock, cache_state, lock, now, cached_state, result, bg, fetched,
                   calledOnEmpty, rq>>

\* ------------------------------------------------- update_in_background
\* self.cache_state.write() of update_in_background
refresh_write_lock(r) ==
    /\ pc[r] = "update_in_background"
    /\ LockFree
    /\ lock' = WriteLocked
    /\ pc' = [pc EXCEPT ![r] = "set_refreshing"]
    /\ UNCHANGED <<clock, cache_state, now, cached_state, result, ret, bg, fetched,
                   calledOnEmpty, rq>>

\* *cache_state = Refreshing { old_expires, old_jwks }; the guard dropped;
\* tokio::spawn of the refresh task; get returns the snapshot's key set
set_refreshing(r) ==
    /\ pc[r] = "set_refreshing"
    /\ cache_state' = Refreshing(cached_state[r].expires, cached_state[r].jwks)
    /\ lock' = WriteUnlocked
    /\ bg' = [bg EXCEPT ![r] = [pc |-> "request", result |-> NoResult]]
    /\ ret' = [ret EXCEPT ![r] = Ok(cached_state[r].jwks, cached_state[r].expires)]
    /\ pc' = [pc EXCEPT ![r] = "done"]
    /\ UNCHANGED <<clock, now, cached_state, result, fetched, calledOnEmpty, rq>>

\* Self::request(...).await of the spawned task (with the now of its get)
bg_request(r) ==
    /\ bg[r].pc = "request"
    /\ \E source \in Sources :
          LET out == request(source, timeout_spec)
          IN  /\ fetched' = fetched + out.invoked
              /\ bg' = [bg EXCEPT ![r] = [pc |-> "write",
                                          result |-> fetch_result(out, now[r], fetched')]]
    /\ UNCHANGED <<clock, cache_state, lock, pc, now, cached_state, result, ret,
                   calledOnEmpty, rq>>

\* cache_state.write() of the spawned task
bg_write_lock(r) ==
    /\ bg[r].pc = "write"
    /\ LockFree
    /\ lock' = WriteLocked
    /\ bg' = [bg EXCEPT ![r].pc = "merge"]
    /\ UNCHANGED <<clock, cache_state, pc, now, cached_state, result, ret, fetched,
                   calledOnEmpty, rq>>

\* The merge dropping the cached key set when the refresh has failed.
bg_new_state_drop(state, res) ==
    IF res.kind = "Ok" THEN Fetched(res.expires, res.jwks)
    ELSE IF state.tag = "Fetching" THEN Fetching(state.notify)
    ELSE Empty

\* The merge pairing the new key set with the expiry bound by the match arm
\* (the `expires` of the held state) in the arms that hold data.
bg_new_state_mixed(state, res) ==
    CASE state.tag = "Empty" ->
            IF res.kind = "Ok" THEN Fetched(res.expires, res.jwks) ELSE Empty
      [] state.tag = "Fetching" ->
            IF res.kind = "Ok" THEN Fetched(res.expires, res.jwks)
            ELSE Fetching(state.notify)
      [] state.tag \in {"Refreshing", "Fetched"} ->
            IF res.kind = "Ok" THEN Fetched(state.expires, res.jwks)
            ELSE Refreshing(state.expires, state.jwks)

\* The merge leaving the held state as it is whenever the refresh has failed.
bg_new_state_keep(state, res) ==
    IF res.kind = "Ok" THEN Fetched(res.expires, res.jwks) ELSE state

\* let new_state = match cache_state.to_owned() { ... }
bg_new_state(state, res) ==
    CASE state.tag = "Empty" ->
            IF res.kind = "Ok" THEN Fetched(res.expires, res.jwks) ELSE Empty
      [] state.tag = "Fetching" ->
            IF res.kind = "Ok" THEN Fetched(res.expires, res.jwks)
            ELSE Fetching(state.notify)
      [] state.tag = "Refreshing" ->
            IF res.kind = "Ok" THEN Fetched(res.expires, res.jwks)
            ELSE Refreshing(state.expires, state.jwks)
      [] state.tag = "Fetched" ->
            IF res.kind = "Ok" THEN Fetched(res.expires, res.jwks)
            ELSE Refreshing(state.expires, state.jwks)

\* The merge of the spawned task under the write guard: notify_waiters in
\* the Fetching arm on success, *cache_state = new_state, the guard dropped.
bg_merge(r) ==
    /\ bg[r].pc = "merge"
    /\ cache_state' = bg_new_state(cache_state, bg[r].result)
    /\ pc' = IF cache_state.tag = "Fetching" /\ bg[r].result.kind = "Ok"
             THEN notify_waiters(cache_state.notify, pc)
             ELSE pc
    /\ lock' = WriteUnlocked
    /\ bg' = [bg EXCEPT ![r].pc = "done"]
    /\ UNCHANGED <<clock, now, cached_state, result, ret, fetched, calledOnEmpty, rq>>

\* ---------------------------------------------------------------- clock
Tick ==
    /\ clock < MaxClock
    /\ clock' = clock + 1
    /\ UNCHANGED <<cache_state, lock, pc, now, cached_state, result, ret, bg, fetched,
                   calledOnEmpty, rq>>

Next ==
    \/ Tick
    \/ \E r \in Readers : get_now(r)
    \/ \E r \in Readers : read_lock(r)
    \/ \E r \in Readers : read_clone(r)
    \/ \E r \in Readers : notified(r)
    \/ \E r \in Readers : try_write_some(r)
    \/ \E r \in Readers : try_write_none(r)
    \/ \E r \in Readers : set_fetching(r)
    \/ \E r \in Readers : fg_request(r)
    \/ \E r \in Readers : fg_write_lock(r)
    \/ \E r \in Readers : fg_store(r)
    \/ \E r \in Readers : fg_notify(r)
    \/ \E r \in Readers : refresh_write_lock(r)
    \/ \E r \in Readers : set_refreshing(r)
    \/ \E r \in Readers : bg_request(r)
    \/ \E r \in Readers : bg_write_lock(r)
    \/ \E r \in Readers : bg_merge(r)

Spec == Init /\ [][Next]_vars

TypeOK ==
    /\ clock \in 0..MaxClock
    /\ lock.readers \in 0..NReaders
    /\ \A r \in Readers : pc[r] \in {"idle", "read", "clone", "notified", "waiting",
            "update_notify", "set_fetching", "request", "write", "store", "notify",
            "update_in_background", "set_refreshing", "done"}

\* ------------------------------------------------------- cancellation
\* The future of get call r is dropped while it is suspended in an await:
\* in request (update_notify), where the source has been invoked at least
\* once and at most retries + 1 times by then, or in notified().await.
\* Nothing of update_notify or get runs after the drop: there is no Drop
\* guard around the Fetching state.  The spawned refresh task is detached
\* and is not dropped with the call.
cancel(r) ==
    /\ pc[r] \in {"request", "waiting"}
    /\ pc' = [pc EXCEPT ![r] = "cancelled"]
    /\ IF pc[r] = "request"
       THEN \E n \in 1..(timeout_spec.retries + 1) : fetched' = fetched + n
       ELSE fetched' = fetched
    /\ UNCHANGED <<clock, cache_state, lock, now, cached_state, result, ret, bg,
                   calledOnEmpty, rq>>

NextCancel ==
    \/ Next
    \/ \E r \in Readers : cancel(r)

CancelSpec == Init /\ [][NextCancel]_vars


\* ------------------------------------------------- the request harness
\* One call of request for every TimeoutSpec and every behaviour of the
\* source within the bounds; the cache itself stays as constructed.
TimeoutSpecs ==
    [retries : 0..MaxRetries, retry_after : 0..MaxTime, backoff : 0..MaxTime,
     deadline : 0..MaxTime]
RqCalls == [dur : 0..(MaxTime + 1), ok : BOOLEAN]
RqSources == [1..(MaxRetries + 1) -> RqCalls]
NoOut == [kind |-> "None", elapsed |-> 0, invoked |-> 0, from |-> 0]

InitRequest ==
    /\ clock = 0
    /\ cache_state = Empty
    /\ lock = [writer |-> FALSE, readers |-> 0]
    /\ pc = [r \in Readers |-> "idle"]
    /\ now = [r \in Readers |-> 0]
    /\ cached_state = [r \in Readers |-> Empty]
    /\ result = [r \in Readers |-> NoResult]
    /\ ret = [r \in Readers |-> NoResult]
    /\ bg = [r \in Readers |-> NoTask]
    /\ fetched = 0
    /\ calledOnEmpty = TRUE
    /\ rq \in [pc : {"call"}, timeout : TimeoutSpecs, source : RqSources, out : {NoOut}]

\* Self::request(source, url, as_pkeys, now, timeout).await
rq_request ==
    /\ rq.pc = "call"
    /\ rq' = [rq EXCEPT !.pc = "done", !.out = request(rq.source, rq.timeout)]
    /\ UNCHANGED <<clock, cache_state, lock, pc, now, cached_state, result, ret, bg,
                   fetched, calledOnEmpty>>

NextRequest == rq_request

RequestSpec == InitRequest /\ [][NextRequest]_vars


\* -----------------------------------------------------------------
\* Construction of a cache: CachedJWKS::from_source is called with an update
\* period and a timeout policy drawn from small sets; the harness keeps the
\* outcome of the call in rq, and one get is then made on the object that
\* exists.
\* -----------------------------------------------------------------
\* The object a construction yields: none before the call, none after a
\* failed assertion (the call panics), the cache otherwise.
NoObject ==
    [tag |-> "none", update_period |-> 0, timeout_spec |-> timeout_spec, cache_state |-> Empty]
Panicked ==
    [tag |-> "panic", update_period |-> 0, timeout_spec |-> timeout_spec, cache_state |-> Empty]
CacheObject(period, spec) ==
    [tag |-> "cache", update_period |-> period, timeout_spec |-> spec, cache_state |-> Empty]

\* The assertion accepts an update period equal to the deadline.
from_source_lax(period, spec) ==
    IF period >= spec.deadline
    THEN CacheObject(period, spec)
    ELSE Panicked

\* assert!(update_period > timeout_spec.deadline, ...); Self { update_period,
\* timeout_spec, cache_state: Default::default(), source, .. }
from_source(period, spec) ==
    IF period > spec.deadline
    THEN CacheObject(period, spec)
    ELSE Panicked

UpdatePeriods == 0..(MaxTime + 1)

InitConstruct ==
    /\ clock = 0
    /\ cache_state = Empty
    /\ lock = [writer |-> FALSE, readers |-> 0]
    /\ pc = [r \in Readers |-> "idle"]
    /\ now = [r \in Readers |-> 0]
    /\ cached_state = [r \in Readers |-> Empty]
    /\ result = [r \in Readers |-> NoResult]
    /\ ret = [r \in Readers |-> NoResult]
    /\ bg = [r \in Readers |-> NoTask]
    /\ fetched = 0
    /\ calledOnEmpty = TRUE
    /\ rq \in [pc : {"new"}, update_period : UpdatePeriods, timeout : TimeoutSpecs,
                object : {NoObject}]

\* CachedJWKS::from_source(jwks_url, pkeys, update_period, timeout_spec, source)
new_from_source ==
    /\ rq.pc = "new"
    /\ LET object == from_source(rq.update_period, rq.timeout)
       IN  rq' = [rq EXCEPT !.pc = IF object = Panicked THEN "panicked" ELSE "constructed",
                            !.object = object]
    /\ UNCHANGED <<clock, cache_state, lock, pc, now, cached_state, result, ret, bg,
                   fetched, calledOnEmpty>>

\* cache.get() on the constructed object, alone: the cache is Empty, so the
\* call fetches under the object's own timeout policy and stores the outcome.
\* The configuration fields of the object are not written.
object_get ==
    /\ rq.pc = "constructed"
    /\ \E source \in RqSources :
         LET out == request(source, rq.object.timeout_spec)
         IN  /\ fetched' = fetched + out.invoked
             /\ rq' = [rq EXCEPT !.pc = "used",
                                 !.object.cache_state =
                                     fg_new_state(fetch_result(out, 0, fetched + out.invoked))]
    /\ UNCHANGED <<clock, cache_state, lock, pc, now, cached_state, result, ret, bg,
                   calledOnEmpty>>

NextConstruct == new_from_source \/ object_get

ConstructSpec == InitConstruct /\ [][NextConstruct]_vars


\* =================================================================
\* Properties
\* =================================================================
AllDone == \A r \in Readers : pc[r] = "done"
\* The fetches that are between their start and the end of their request.
ForegroundInFlight == {r \in Readers : pc[r] = "request"}
BackgroundInFlight == {r \in Readers : bg[r].pc = "request"}
\* The refresh tasks that have been spawned and have not merged yet.
RefreshRunning == {r \in Readers : bg[r].pc \in {"request", "write", "merge"}}
HoldsData(state) == state.tag \in {"Refreshing", "Fetched"}
\* get call r returned a key set it took from its snapshot of the cache
\* (not the result of a fetch of its own).
ServedFromCache(r) == pc[r] = "done" /\ ret[r].kind = "Ok" /\ result[r].kind = "None"

\* C1 (single-flight): when all get calls were made on an Empty cache at the
\* same instant and the source never failed, then once they have all
\* returned the source has been invoked exactly once and every call
\* returned the key set of that one invocation.
C1_SingleFlight ==
    ( /\ AllDone
      /\ calledOnEmpty
      /\ \A r \in Readers : now[r] = 0
      /\ \A r \in Readers : ~IsErr(result[r]) /\ ~IsErr(bg[r].result) )
    => ( /\ fetched = 1
         /\ \A r \in Readers : ret[r].kind = "Ok" /\ ret[r].jwks = 1 )

\* C2 (at most one fetch at a time): in every reachable state at most one
\* fetch, foreground or background, is in flight on the cache.
C2_AtMostOneFetchInFlight ==
    Cardinality(ForegroundInFlight) + Cardinality(BackgroundInFlight) <= 1

\* C3 (stale-while-revalidate): for one cached key set at most one
\* background fetch is issued, however many get calls read it in its
\* refresh window: no two refresh tasks are spawned for the same key set
\* (unless the earlier one has failed).
C3_OneRefreshPerWindow ==
    \A r1, r2 \in Readers :
        ( /\ r1 # r2
          /\ bg[r1].pc # "none" /\ bg[r2].pc # "none"
          /\ ret[r1].jwks = ret[r2].jwks )
        => (IsErr(bg[r1].result) \/ IsErr(bg[r2].result))

\* C4 (hard expiry): a get called at or after the expiry of the stored key
\* set, when no refresh has replaced it (here: every refresh task spawned
\* has ended), does not return that expired key set from the cache.
C4_ExpiredNeverServed ==
    \A r \in Readers :
        (ServedFromCache(r) /\ RefreshRunning = {}) => now[r] < ret[r].expires

\* C5 (refresh is re-attempted): once a background refresh has failed and
\* left the cache Refreshing with nothing in flight, a get that reads this
\* state starts a new fetch of the source.
C5_RefreshRetried ==
    [][\A r \in Readers :
        ( /\ pc[r] = "clone" /\ pc'[r] # "clone"
          /\ cache_state.tag = "Refreshing"
          /\ RefreshRunning = {}
          /\ ForegroundInFlight = {}
          /\ \E q \in Readers : bg[q].pc = "done" /\ IsErr(bg[q].result) )
        => (pc'[r] \in {"update_notify", "update_in_background"})]_vars

\* C6 (errors only without valid data): a failed foreground fetch never
\* discards an unexpired key set: when update_notify is about to store the
\* outcome of a failed fetch, the cache holds no key set that is still
\* unexpired.
C6_FailureDiscardsNoValidKeys ==
    \A r \in Readers :
        (pc[r] = "store" /\ IsErr(result[r]))
        => ~(HoldsData(cache_state) /\ clock < cache_state.expires)


\* C7 (background failures stay hidden): get returns an error only when
\* that very call ran a foreground fetch that failed with this error; and
\* the merge of a failed refresh changes no get's return value and never
\* turns a state that holds data into one that holds none.
C7_BackgroundFailureHidden ==
    [][ /\ \A r \in Readers : IsErr(ret'[r]) => (IsErr(result'[r]) /\ ret'[r] = result'[r])
        /\ \A q \in Readers :
              (bg[q].pc = "merge" /\ bg'[q].pc = "done" /\ IsErr(bg[q].result))
              => ( /\ ret' = ret
                   /\ HoldsData(cache_state) => HoldsData(cache_state')
                   /\ cache_state.tag = "Empty" => cache_state' = Empty ) ]_vars

\* A refresh has failed, the cache still holds the key set, and a get call
\* that started after the one that spawned the refresh has returned it.
C7_Witness ==
    \E q, r \in Readers :
        /\ q < r
        /\ bg[q].pc = "done" /\ IsErr(bg[q].result)
        /\ HoldsData(cache_state)
        /\ pc[r] = "done" /\ ret[r].kind = "Ok" /\ ret[r].jwks = cache_state.jwks

\* C8 (foreground failure): when the foreground fetch of a get call fails,
\* update_notify stores Empty, then wakes every get call waiting on the
\* Notify of this fetch and returns the error to its own caller alone; the
\* woken calls go back to reading the state without a return value; and a
\* get call whose snapshot is Empty calls update_notify.
C8_ForegroundFailure ==
    [][\A r \in Readers :
        /\ (pc[r] = "store" /\ pc'[r] = "notify" /\ IsErr(result[r]))
           => cache_state' = Empty
        /\ (pc[r] = "notify" /\ pc'[r] = "done" /\ IsErr(result[r]))
           => ( /\ ret'[r] = result[r]
                /\ \A w \in Readers \ {r} :
                      /\ ret'[w] = ret[w]
                      /\ (pc[w] = "waiting" /\ cached_state[w] = Fetching(r))
                         => (pc'[w] = "read" /\ ret'[w] = NoResult) )
        /\ (pc[r] = "clone" /\ pc'[r] # "clone" /\ cache_state = Empty)
           => pc'[r] = "update_notify" ]_vars

\* A failed foreground fetch has stored Empty and returned its error, two
\* get calls that waited on its Notify were woken, and one of them has read
\* Empty and is in a fetch of its own.
C8_Witness ==
    \E r, w1, w2 \in Readers :
        /\ w1 # w2 /\ r # w1 /\ r # w2
        /\ pc[r] = "done" /\ IsErr(ret[r])
        /\ pc[w1] = "request" /\ cached_state[w1] = Empty
        /\ pc[w2] = "read" /\ cached_state[w2] = Fetching(r)

\* ------------------------------------------------ request harness
\* Every call the loop can make fails: a client error, or a call that
\* outlasts retry_after.
AllAttemptsFail(source, timeout) ==
    \A i \in 1..(timeout.retries + 1) :
        ~source[i].ok \/ source[i].dur > timeout.retry_after

Min(a, b) == IF a <= b THEN a ELSE b

\* The time retries + 1 failing attempts and the backoffs between them
\* take, counted from the durations of the calls.
RECURSIVE AttemptsTime(_, _, _)
AttemptsTime(source, timeout, n) ==
    IF n = 0 THEN 0
    ELSE AttemptsTime(source, timeout, n - 1) + Min(source[n].dur, timeout.retry_after)
LoopTime(source, timeout) ==
    AttemptsTime(source, timeout, timeout.retries + 1) + timeout.retries * timeout.backoff

\* C9 as stated (retry count): against a source that fails on every
\* attempt, request invokes the source exactly retries + 1 times and then
\* yields Timeout or ClientError, for every TimeoutSpec.
C9_RetryCount ==
    (rq.pc = "done" /\ AllAttemptsFail(rq.source, rq.timeout))
    => ( /\ rq.out.kind \in {"Client", "Timeout"}
         /\ rq.out.invoked = rq.timeout.retries + 1 )

\* C9 as amended: against a source that fails on every attempt, request
\* yields Timeout or ClientError; it has invoked the source exactly
\* retries + 1 times when the retries + 1 attempts and the backoffs between
\* them fit in the deadline, and otherwise the deadline ends it with Timeout
\* after at least one and at most retries + 1 invocations.
C9_RetryCountWithinDeadline ==
    (rq.pc = "done" /\ AllAttemptsFail(rq.source, rq.timeout))
    => ( /\ rq.out.kind \in {"Client", "Timeout"}
         /\ LoopTime(rq.source, rq.timeout) <= rq.timeout.deadline
            => rq.out.invoked = rq.timeout.retries + 1
         /\ LoopTime(rq.source, rq.timeout) > rq.timeout.deadline
            => ( /\ rq.out.kind = "Timeout"
                 /\ rq.out.invoked >= 1
                 /\ rq.out.invoked <= rq.timeout.retries + 1 ) )

\* A request with two retries and a backoff has run against a source that
\* fails every time, within the deadline, and has invoked it three times.
C9_Witness ==
    /\ rq.pc = "done"
    /\ AllAttemptsFail(rq.source, rq.timeout)
    /\ rq.timeout.retries = 2 /\ rq.timeout.backoff = 1
    /\ LoopTime(rq.source, rq.timeout) <= rq.timeout.deadline
    /\ rq.out.invoked = 3

\* Every call of the source takes longer than the deadline.
SlowSource(source, timeout) ==
    \A i \in DOMAIN source : source[i].dur > timeout.deadline

\* C10 (deadline dominance): against a source whose every call takes longer
\* than deadline, request (whose error update_notify and get hand on
\* unchanged) yields Timeout no later than deadline after it was called,
\* for every retries, retry_after and backoff.
C10_DeadlineDominance ==
    (rq.pc = "done" /\ SlowSource(rq.source, rq.timeout))
    => (rq.out.kind = "Timeout" /\ rq.out.elapsed <= rq.timeout.deadline)

\* The deadline has cut a request off in a backoff, with retries left.
C10_Witness ==
    /\ rq.pc = "done"
    /\ SlowSource(rq.source, rq.timeout)
    /\ rq.timeout.retries = 2
    /\ rq.timeout.retry_after < rq.timeout.deadline
    /\ rq.timeout.retry_after + rq.timeout.backoff > rq.timeout.deadline
    /\ rq.out.invoked = 1
    /\ rq.out.kind = "Timeout" /\ rq.out.elapsed = rq.timeout.deadline


\* C11 (construction invariant): a construction with update_period <=
\* deadline fails at once: no cache object comes to exist and the source is
\* never invoked; every cache object that exists has update_period >
\* deadline, with the values it was constructed with, for as long as it lives.
C11_ConstructionInvariant ==
    /\ rq.update_period <= rq.timeout.deadline
         => /\ rq.pc \in {"new", "panicked"}
            /\ rq.object.tag # "cache"
            /\ fetched = 0
    /\ rq.object.tag = "cache"
         => /\ rq.pc \in {"constructed", "used"}
            /\ rq.object.update_period > rq.object.timeout_spec.deadline
            /\ rq.object.update_period = rq.update_period
            /\ rq.object.timeout_spec = rq.timeout
    /\ rq.pc \in {"constructed", "used"} => rq.object.tag = "cache"

\* A construction with update_period = deadline > 0 has panicked.
C11_Witness ==
    /\ rq.pc = "panicked"
    /\ rq.update_period = rq.timeout.deadline
    /\ rq.update_period > 0
    /\ rq.object.tag = "panic"
    /\ fetched = 0


\* A snapshot `state` taken at time t is a hit: Refreshing, or Fetched with
\* the refresh window not yet open.
PureHit(state, t) ==
    \/ state.tag = "Refreshing"
    \/ state.tag = "Fetched" /\ t + update_period < state.expires

\* C12 (hit paths are pure): the step in which a get call takes a snapshot
\* that is Refreshing, or Fetched with now + update_period < expires, is the
\* return of that call with exactly the stored key set; the step invokes no
\* source, spawns no task, suspends nowhere and leaves the cache state as it is.
C12_HitPathsPure ==
    [][\A r \in Readers :
         (pc[r] = "clone" /\ pc'[r] # "clone" /\ PureHit(cache_state, now[r]))
           => /\ pc'[r] = "done"
              /\ ret'[r] = Ok(cache_state.jwks, cache_state.expires)
              /\ cache_state' = cache_state
              /\ fetched' = fetched
              /\ bg' = bg
              /\ result' = result
              /\ \A q \in Readers \ {r} : pc'[q] = pc[q]]_vars

\* A get call returned the keys of a Refreshing snapshot without a fetch or a
\* task of its own, and the cache state is still that snapshot.
C12_Witness ==
    \E r \in Readers :
       /\ ServedFromCache(r)
       /\ cached_state[r].tag = "Refreshing"
       /\ ret[r].jwks = cached_state[r].jwks
       /\ bg[r] = NoTask
       /\ cache_state = cached_state[r]


\* The (key set, expiry) pairs of the fetches that have completed with
\* success so far, in the foreground or in a refresh task.
SuccessfulFetches ==
    {result[r] : r \in {q \in Readers : result[q].kind = "Ok"}}
      \cup {bg[r].result : r \in {q \in Readers : bg[q].result.kind = "Ok"}}

\* C13 (no half-updated cache): whenever the cache state holds data
\* (Refreshing or Fetched), its expires and key set are the pair that one
\* successful fetch returned together; and every key set a get call has
\* returned is the key set of a successful fetch that had completed by then.
C13_NoHalfUpdate ==
    /\ HoldsData(cache_state)
         => Ok(cache_state.jwks, cache_state.expires) \in SuccessfulFetches
    /\ \A r \in Readers :
         HoldsData(cached_state[r])
           => Ok(cached_state[r].jwks, cached_state[r].expires) \in SuccessfulFetches
    /\ \A r \in Readers :
         (pc[r] = "done" /\ ret[r].kind = "Ok") => ret[r] \in SuccessfulFetches

\* A refresh task has replaced the first key set and a later get call
\* returned the new pair from the cache.
C13_Witness ==
    \E q \in Readers : \E r \in Readers :
       /\ bg[q].pc = "done"
       /\ bg[q].result.kind = "Ok"
       /\ cache_state = Fetched(bg[q].result.expires, bg[q].result.jwks)
       /\ ServedFromCache(r)
       /\ ret[r] = bg[q].result
       /\ \E f \in Readers : result[f].kind = "Ok" /\ result[f].expires # ret[r].expires


\* Reader r awaits the Notify of a fetch that has already concluded and
\* notified: no later step notifies that handle.
WaitsOnConcluded(r) ==
    /\ pc[r] = "waiting"
    /\ cached_state[r].tag = "Fetching"
    /\ pc[cached_state[r].notify] = "done"

\* C14 (no lost wake-up): a reader that took the snapshot Fetching(handle)
\* and awaits handle resumes once the fetch that owns handle concludes, also
\* when that fetch notifies between the reader's snapshot and its
\* registration as a waiter.  In the form of a state predicate: no reader is
\* left awaiting a handle whose fetch has concluded and notified.
C14_NoLostWakeup == \A r \in Readers : ~WaitsOnConcluded(r)

\* A reader left awaiting a concluded handle awaits it in every later state.
LostWakeupIsForever ==
    [][\A r \in Readers : WaitsOnConcluded(r) => WaitsOnConcluded(r)']_vars


\* C15 (freshness is monotonic): key sets are numbered in the order in
\* which their fetches completed; a step that replaces one stored pair by
\* another never stores the pair of a fetch that completed earlier.
C15_FreshnessMonotonic ==
    [][(HoldsData(cache_state) /\ HoldsData(cache_state'))
          => cache_state'.jwks >= cache_state.jwks]_vars

\* C15 for update_in_background alone: the step that stores Refreshing never
\* replaces the stored pair by the older pair of the caller's snapshot.
C15_RefreshKeepsNewest ==
    [][\A r \in Readers :
         (pc[r] = "set_refreshing" /\ pc'[r] # "set_refreshing" /\ HoldsData(cache_state))
           => cache_state'.jwks >= cache_state.jwks]_vars


\* The readers that await the Notify h.
Waiters(h) ==
    {q \in Readers : pc[q] = "waiting" /\ cached_state[q] = Fetching(h)}

Woken(r) == pc[r] \in {"read", "clone"} /\ cached_state[r].tag = "Fetching"

ReadSections == {r \in Readers : pc[r] = "clone"}
WriteSections ==
    {<<"get", r>> : r \in {q \in Readers :
                              pc[q] \in {"set_fetching", "store", "set_refreshing"}}}
      \cup {<<"task", r>> : r \in {q \in Readers : bg[q].pc = "merge"}}
Suspended ==
    {<<"get", r>> : r \in {q \in Readers : pc[q] \in {"request", "waiting"}}}
      \cup {<<"task", r>> : r \in {q \in Readers : bg[q].pc = "request"}}

\* C18 (the lock is never held across a suspension): every guard that is
\* held is held by a get call or a task inside a lock section, which only
\* clones or transitions the state; so a call or task that is awaiting a
\* fetch, a backoff sleep or a notify holds none, and when nobody is inside
\* a section the lock is free.
C18_NoLockAcrossSuspension ==
    /\ lock.readers = Cardinality(ReadSections)
    /\ lock.writer <=> WriteSections # {}
    /\ Cardinality(WriteSections) <= 1
    /\ WriteSections \cap Suspended = {}
    /\ \A r \in ReadSections : <<"get", r>> \notin Suspended
    /\ (ReadSections = {} /\ WriteSections = {}) => LockFree

\* One get call awaits its fetch, a second awaits that fetch's Notify and a
\* third is inside the clone: the one guard that is held is the third's.
C18_Witness ==
    \E r \in Readers : \E q \in Readers : \E s \in Readers :
       /\ pc[r] = "request"
       /\ pc[q] = "waiting"
       /\ cached_state[q] = Fetching(r)
       /\ pc[s] = "clone"
       /\ lock.readers = 1


\* Attempt i of the loop succeeds: the call answers within retry_after.
AttemptSucceeds(source, timeout, i) ==
    source[i].ok /\ source[i].dur <= timeout.retry_after
\* The first attempt that succeeds, 0 when none of the retries + 1 does.
FirstSuccess(source, timeout) ==
    LET S == {i \in 1..(timeout.retries + 1) : AttemptSucceeds(source, timeout, i)}
    IN  IF S = {} THEN 0 ELSE CHOOSE i \in S : \A j \in S : i <= j
\* The instant at which attempt n ends when the n - 1 before it have failed.
AttemptEnd(source, timeout, n) ==
    AttemptsTime(source, timeout, n) + (n - 1) * timeout.backoff

\* C19 (error taxonomy of request): request returns the key set of the
\* first attempt that succeeds, when that attempt ends by the deadline; it
\* returns the client error of the last allowed attempt when no attempt
\* succeeds and the last one fails with a client error by the deadline;
\* it returns Timeout when the last allowed attempt outlasts retry_after, or
\* when the deadline elapses before the loop ends; the error it returns is
\* never one of an earlier attempt.
C19_ErrorTaxonomy ==
    rq.pc = "done"
    => LET source == rq.source
           timeout == rq.timeout
           out == rq.out
           last == timeout.retries + 1
           k == FirstSuccess(source, timeout)
           loopEnd == AttemptEnd(source, timeout, IF k = 0 THEN last ELSE k)
       IN  /\ out.kind \in {"Ok", "Client", "Timeout"}
           /\ out.kind = "Ok"
                <=> (k # 0 /\ loopEnd <= timeout.deadline)
           /\ out.kind = "Ok" => (out.from = k /\ out.elapsed = loopEnd)
           /\ out.kind = "Client"
                <=> ( /\ k = 0
                      /\ loopEnd <= timeout.deadline
                      /\ source[last].dur <= timeout.retry_after )
           /\ out.kind = "Client" => (out.from = last /\ ~source[last].ok)
           /\ out.kind = "Timeout"
                <=> \/ ( /\ k = 0
                         /\ loopEnd <= timeout.deadline
                         /\ source[last].dur > timeout.retry_after )
                    \/ loopEnd > timeout.deadline
           /\ (out.kind = "Timeout" /\ loopEnd <= timeout.deadline) => out.from = last
           /\ (out.kind = "Timeout" /\ loopEnd > timeout.deadline)
                => (out.from = 0 /\ out.elapsed = timeout.deadline)
           /\ IsErr(out) => out.from \in {0, last}

\* A request with two retries whose first attempt timed out and whose
\* second and third failed with client errors has returned the client
\* error of the third.
C19_Witness ==
    /\ rq.pc = "done"
    /\ rq.timeout.retries = 2
    /\ rq.source[1].dur > rq.timeout.retry_after
    /\ \A i \in {2, 3} : ~rq.source[i].ok /\ rq.source[i].dur <= rq.timeout.retry_after
    /\ rq.out.kind = "Client"
    /\ rq.out.from = 3


\* C20 (no orphaned Fetching): whenever the state is Fetching(h), the get
\* call that created h is still in its foreground fetch (in request, or
\* about to store its result) and has not yet notified h.  No get call is
\* cancelled in Spec.
C20_NoOrphanedFetching ==
    cache_state.tag = "Fetching"
    => pc[cache_state.notify] \in {"request", "write", "store"}

\* The state is Fetching(h) with h's fetch complete and about to be stored,
\* while an earlier fetch of another get call has stored, notified and
\* returned.
C20_Witness ==
    /\ cache_state.tag = "Fetching"
    /\ pc[cache_state.notify] = "store"
    /\ \E q \in Readers \ {cache_state.notify} : pc[q] = "done" /\ result[q].kind = "Ok"


\* The state is Fetching(h), the get call that owned h was cancelled, and
\* nothing is left that writes the state: no call between its snapshot
\* and its store, no refresh task before its merge.
Orphaned ==
    /\ cache_state.tag = "Fetching"
    /\ pc[cache_state.notify] = "cancelled"
    /\ \A q \in Readers :
         pc[q] \in {"idle", "read", "clone", "notified", "waiting", "done", "cancelled"}
    /\ RefreshRunning = {}

\* C21 (cancellation safety of get): after a get call is cancelled at a
\* suspension point, the state does not remain Fetching with a handle that
\* will never be notified, so that every later get still returns.  In the
\* form of a state predicate: the cache is never left orphaned.
C21_CancellationSafe == ~Orphaned

\* An orphaned cache stays orphaned, with the same handle.
OrphanedIsForever ==
    [][Orphaned => (Orphaned' /\ cache_state' = cache_state)]_vars

\* No get call returns from an orphaned cache: the calls made from then on
\* end up awaiting the handle, or cancelled.
OrphanedGetNeverReturns ==
    [][Orphaned => \A q \in Readers : pc'[q] = "done" => pc[q] = "done"]_vars
====
